---- MODULE Spec2Model ----
(***************************************************************************)
(* Model of cron's ConstantDelaySchedule (constantdelay.go).               *)
(*                                                                         *)
(* Instants (time.Time) are integers: clock ticks since the Unix epoch,    *)
(* negative before it.  Durations (time.Duration) are integers in the same *)
(* unit.  One second is Second ticks; the program's tick is the nanosecond *)
(* (time.Second = 10^9), the model uses a coarser tick so that the sets of *)
(* instants stay enumerable.  All arithmetic below is written against      *)
(* Second, never against its value.                                        *)
(***************************************************************************)
EXTENDS Integers, Sequences, FiniteSets

\* Ticks per second (resolution of the model clock).
Second == 3

\* time.Nanosecond, the unit of time.Duration.
Nanosecond == 1

\* Largest instant handed to Next, in ticks after the epoch.
MaxTime == 9

\* Largest construction instant (time.Now() in a constructor), in ticks.
MaxT0 == 1

\* Largest requested duration and initial offset, in ticks.
MaxDuration == 7
MaxInitial == 4

\* Largest value drawn from r.Int63().
MaxRand == 2

\* Number of Next calls recorded per schedule.
MaxCalls == 3

\* Instants handed to Next: one before the epoch, the rest from it on.
Times == (-1)..MaxTime
ConstructionTimes == 0..MaxT0
Durations == (-(Second + 1))..MaxDuration
Initials == (-1)..MaxInitial
Draws == 0..MaxRand

VARIABLES pc, args, cds, calls

vars == <<pc, args, cds, calls>>

----------------------------------------------------------------------------
(* Go integer arithmetic: / truncates toward zero, % takes the sign of the *)
(* dividend.                                                               *)

Abs(x) == IF x < 0 THEN -x ELSE x

GoDiv(a, b) ==
    IF (a < 0) = (b < 0) THEN Abs(a) \div Abs(b) ELSE -(Abs(a) \div Abs(b))

GoRem(a, b) == a - b * GoDiv(a, b)

----------------------------------------------------------------------------
(* package time                                                            *)

\* Time.Nanosecond(): offset within the second, in [0, Second) also for
\* instants before the epoch.
TimeNanosecond(t) == t % Second

\* Time.Add and Time.Sub (the saturation of Sub at +-292 years lies outside
\* the instants of the model and keeps the sign of the difference).
Add(t, d) == t + d
Sub(t, u) == t - u

\* time.Unix(sec, nsec)
Unix(sec, nsec) == sec * Second + nsec

\* Duration.Seconds(): float64(d / Second) + float64(d % Second) / 1e9.
\* The float is kept as its two summands, which always share their sign.
Seconds(d) == [sec |-> GoDiv(d, Second), nsec |-> GoRem(d, Second)]

\* int64(f): conversion of a float truncates toward zero.
Int64(f) == f.sec

\* f > 0 on a float
FloatPositive(f) == f.sec > 0 \/ (f.sec = 0 /\ f.nsec > 0)

\* t truncated to the start of its second (used by the properties only)
Trunc(t) == t - (t % Second)

----------------------------------------------------------------------------
(* constantdelay.go                                                        *)

EveryNoClamp(duration) ==
    [Delay     |-> duration - GoRem(duration, Second),
     StartTime |-> Unix(0, 0)]

EveryRounded(duration) ==
    LET d == IF duration < Second THEN Second ELSE duration
        h == d + (Second \div 2)
    IN  [Delay     |-> h - GoRem(h, Second),
         StartTime |-> Unix(0, 0)]

Every(duration) ==
    LET d == IF duration < Second THEN Second ELSE duration
    IN  [Delay     |-> d - GoRem(d, Second),
         StartTime |-> Unix(0, 0)]

\* t is the value of time.Now() read by the constructor.
EveryWithInitial(duration, initial, t) ==
    LET s == Every(duration)
    IN  [s EXCEPT !.StartTime =
            Add(t, initial - GoRem(TimeNanosecond(t), Second))]

\* The divisor of the random draw: int64(duration.Seconds()), taken from the
\* requested duration, not from the clamped Delay.
RandDivisor(duration) == Int64(Seconds(duration))

EveryWithRandInitialNoAlign(duration, t, r) ==
    LET s == Every(duration)
    IN  [s EXCEPT !.StartTime =
            Add(t, s.Delay - GoRem(r, RandDivisor(duration)) * Second)]

\* t is the value of time.Now(), r the value of r.Int63().  Defined only
\* when RandDivisor(duration) # 0: the integer % panics on a zero divisor.
EveryWithRandInitial(duration, t, r) ==
    LET s == Every(duration)
    IN  [s EXCEPT !.StartTime =
            Add(t, s.Delay - GoRem(TimeNanosecond(t), Second)
                   - GoRem(r, RandDivisor(duration)) * Second)]

NextNoTruncate(schedule, t) ==
    IF FloatPositive(Seconds(Sub(schedule.StartTime, t)))
    THEN schedule.StartTime
    ELSE Add(t, schedule.Delay)

NextWholeSeconds(schedule, t) ==
    IF Int64(Seconds(Sub(schedule.StartTime, t))) > 0
    THEN schedule.StartTime
    ELSE Add(t, schedule.Delay - TimeNanosecond(t) * Nanosecond)

NextNotPast(schedule, t) ==
    IF ~ FloatPositive(Seconds(Sub(t, schedule.StartTime)))
    THEN schedule.StartTime
    ELSE Add(t, schedule.Delay - TimeNanosecond(t) * Nanosecond)

\* ConstantDelaySchedule.Next
ScheduleNext(schedule, t) ==
    IF FloatPositive(Seconds(Sub(schedule.StartTime, t)))
    THEN schedule.StartTime
    ELSE Add(t, schedule.Delay - TimeNanosecond(t) * Nanosecond)

----------------------------------------------------------------------------
(* The state machine: one schedule is constructed by one of the three      *)
(* constructors and then queried.  args records the constructor and its    *)
(* inputs (including the clock and random values it read), calls the       *)
(* queries made so far with their results.                                 *)

Init ==
    /\ pc = "start"
    /\ args = [ctor |-> "none"]
    /\ cds = [Delay |-> 0, StartTime |-> 0]
    /\ calls = <<>>

CallEvery ==
    /\ pc = "start"
    /\ \E duration \in Durations :
        /\ args' = [ctor |-> "Every", duration |-> duration]
        /\ cds' = Every(duration)
    /\ pc' = "built"
    /\ UNCHANGED calls

CallEveryWithInitial ==
    /\ pc = "start"
    /\ \E duration \in Durations, initial \in Initials, t \in ConstructionTimes :
        /\ args' = [ctor |-> "EveryWithInitial", duration |-> duration,
                    initial |-> initial, t0 |-> t]
        /\ cds' = EveryWithInitial(duration, initial, t)
    /\ pc' = "built"
    /\ UNCHANGED calls

CallEveryWithRandInitial ==
    /\ pc = "start"
    /\ \E duration \in Durations, t \in ConstructionTimes, r \in Draws :
        /\ args' = [ctor |-> "EveryWithRandInitial", duration |-> duration,
                    t0 |-> t, r |-> r]
        /\ IF RandDivisor(duration) = 0
           THEN /\ pc' = "panic"
                /\ UNCHANGED cds
           ELSE /\ pc' = "built"
                /\ cds' = EveryWithRandInitial(duration, t, r)
    /\ UNCHANGED calls

\* A query by the host; the host's clock advances between two queries.
CallNext ==
    /\ pc = "built"
    /\ Len(calls) < MaxCalls
    /\ \E t \in Times :
        /\ calls # <<>> => t > calls[Len(calls)].t
        /\ calls' = Append(calls, [t |-> t, next |-> ScheduleNext(cds, t)])
    /\ UNCHANGED <<pc, args, cds>>

Next == CallEvery \/ CallEveryWithInitial \/ CallEveryWithRandInitial \/ CallNext

Spec == Init /\ [][Next]_vars

----------------------------------------------------------------------------
(* Properties                                                              *)

Built == pc = "built"
Calls == 1..Len(calls)
Epoch == Unix(0, 0)

\* calls[2..n] were each made at the instant the previous call returned.
Chained(n) == \A i \in 2..n : calls[i].t = calls[i - 1].next

\* C1: for a schedule built by Every, a query at an instant not earlier
\* than the epoch sentinel returns that instant truncated to the start of
\* its second plus Delay.
C1_PlainNext ==
    (Built /\ args.ctor = "Every") =>
        \A i \in Calls :
            calls[i].t >= Epoch => calls[i].next = Trunc(calls[i].t) + cds.Delay

C1_Witness ==
    /\ Built /\ args.ctor = "Every"
    /\ \E i \in Calls :
        /\ calls[i].t >= Epoch
        /\ TimeNanosecond(calls[i].t) # 0
        /\ cds.Delay > Second

\* C2: for a schedule built by EveryWithInitial with a positive offset, every
\* query made before StartTime returns StartTime, and StartTime is still the
\* value fixed at construction, whatever the number of such queries.
C2_PendingReturnsStartTime ==
    (Built /\ args.ctor = "EveryWithInitial" /\ args.initial > 0) =>
        /\ cds.StartTime = Trunc(args.t0) + args.initial
        /\ \A i \in Calls :
            calls[i].t < cds.StartTime => calls[i].next = cds.StartTime

C2_Witness ==
    /\ Built /\ args.ctor = "EveryWithInitial" /\ args.initial > 0
    /\ \E i, j \in Calls :
        /\ calls[i].t < calls[j].t
        /\ calls[j].t < cds.StartTime
        /\ calls[i].t > args.t0
        /\ calls[i].next = calls[j].next

\* C3: Every(d).Delay is one second when d is below one second and d
\* truncated down to whole seconds otherwise; so it is at least one second
\* and has no sub-second component.
C3_EveryDelay ==
    (Built /\ args.ctor = "Every") =>
        /\ args.duration < Second => cds.Delay = Second
        /\ args.duration >= Second =>
            /\ cds.Delay = args.duration - (args.duration % Second)
            /\ cds.Delay <= args.duration
        /\ cds.Delay >= Second
        /\ cds.Delay % Second = 0

C3_Witness ==
    /\ Built /\ args.ctor = "Every"
    /\ args.duration > Second
    /\ 2 * (args.duration % Second) > Second
    /\ cds.Delay = args.duration - (args.duration % Second)

\* C4 as stated: three chained queries of an Every(d) schedule, d in whole
\* seconds, starting at T return T', T' + d, T' + 2d.
C4_Original ==
    (/\ Built /\ args.ctor = "Every"
     /\ args.duration >= Second /\ args.duration % Second = 0
     /\ Len(calls) = 3 /\ Chained(3)) =>
        /\ calls[1].next = Trunc(calls[1].t)
        /\ calls[2].next = Trunc(calls[1].t) + args.duration
        /\ calls[3].next = Trunc(calls[1].t) + 2 * args.duration

\* C4 (amended): chained queries of an Every(d) schedule, d in whole
\* seconds, starting at T not earlier than the epoch return T' + d,
\* T' + 2d, T' + 3d: the n-th returns T' + n * d.
C4_FixedCadence ==
    (/\ Built /\ args.ctor = "Every"
     /\ args.duration >= Second /\ args.duration % Second = 0) =>
        \A n \in Calls :
            (calls[1].t >= Epoch /\ Chained(n)) =>
                calls[n].next = Trunc(calls[1].t) + n * args.duration

C4_Witness ==
    /\ Built /\ args.ctor = "Every"
    /\ args.duration >= Second /\ args.duration % Second = 0
    /\ Len(calls) = 3 /\ Chained(3)
    /\ calls[1].t >= Epoch /\ TimeNanosecond(calls[1].t) # 0
    /\ calls[3].next = Trunc(calls[1].t) + 3 * args.duration

\* C5 as stated: for d of at least one second the StartTime of
\* EveryWithRandInitial(d) lies in [t0, t0 + Delay).
C5_Original ==
    (Built /\ args.ctor = "EveryWithRandInitial" /\ args.duration >= Second) =>
        /\ args.t0 <= cds.StartTime
        /\ cds.StartTime < args.t0 + cds.Delay

\* C5 (amended): for d of at least one second the StartTime of
\* EveryWithRandInitial(d) lies in (t0, t0 + Delay]; it is a whole-second
\* instant between t0 truncated plus one second and t0 truncated plus Delay.
C5_RandWindow ==
    (Built /\ args.ctor = "EveryWithRandInitial" /\ args.duration >= Second) =>
        /\ args.t0 < cds.StartTime
        /\ cds.StartTime <= args.t0 + cds.Delay
        /\ Trunc(args.t0) + Second <= cds.StartTime
        /\ cds.StartTime <= Trunc(args.t0) + cds.Delay
        /\ cds.StartTime % Second = 0

C5_Witness ==
    /\ Built /\ args.ctor = "EveryWithRandInitial"
    /\ args.duration >= 2 * Second
    /\ TimeNanosecond(args.t0) = 0
    /\ cds.StartTime = args.t0 + cds.Delay

\* C6: EveryWithRandInitial never reduces the draw by a zero divisor and
\* always returns a schedule.
C6_NoZeroDivisor ==
    args.ctor = "EveryWithRandInitial" =>
        /\ RandDivisor(args.duration) # 0
        /\ pc = "built"

\* C7 as stated: when StartTime is later than the query by less than one
\* second, Next does not return StartTime but the query truncated plus Delay.
C7_Original ==
    Built =>
        \A i \in Calls :
            (calls[i].t < cds.StartTime /\ cds.StartTime - calls[i].t < Second) =>
                /\ calls[i].next # cds.StartTime
                /\ calls[i].next = Trunc(calls[i].t) + cds.Delay

\* C7 (amended): a StartTime later than the query by any positive amount,
\* less than one second included, counts as future and is returned.
C7_SubSecondIsFuture ==
    Built =>
        \A i \in Calls :
            (calls[i].t < cds.StartTime /\ cds.StartTime - calls[i].t < Second) =>
                calls[i].next = cds.StartTime

C7_Witness ==
    /\ Built /\ args.ctor = "EveryWithInitial"
    /\ \E i \in Calls :
        /\ calls[i].t >= args.t0
        /\ calls[i].t < cds.StartTime
        /\ cds.StartTime - calls[i].t < Second
        /\ calls[i].next = cds.StartTime
        /\ cds.StartTime # Trunc(calls[i].t) + cds.Delay

C9_OnTheSecond ==
    Built => \A i \in Calls : calls[i].next % Second = 0

\* C10: every instant returned by Next is strictly later than the query.
C10_StrictlyLater ==
    Built => \A i \in Calls : calls[i].next > calls[i].t

C10_Witness ==
    /\ Built /\ args.ctor = "EveryWithRandInitial"
    /\ \E i, j \in Calls :
        /\ calls[i].t < cds.StartTime /\ calls[i].next = cds.StartTime
        /\ calls[j].t >= cds.StartTime /\ calls[j].next > calls[j].t
        /\ TimeNanosecond(calls[j].t) # 0

====
